---- MODULE Spec2Model ----
(***************************************************************************)
(* Model of the two script templates of py-template:                       *)
(*   example_wiki_scraper.py  (Demographics Reporter)                      *)
(*   script_template.py       (Random Table Logger)                        *)
(* A Tabular Dataset is a sequence of named columns; a column has a dtype, *)
(* a sequence of cells and the names the code gives it.  The pandas calls  *)
(* the source makes (infer_dtype, to_numeric, astype, to_datetime,         *)
(* is_numeric_dtype, is_string_dtype) are modelled by what they do to the  *)
(* cells and the dtype of a column.                                        *)
(***************************************************************************)
EXTENDS Integers, Sequences, FiniteSets, TLC

VARIABLES prog, pc, df, orig, prev, ret, types, log, ops, rc, env

vars == <<prog, pc, df, orig, prev, ret, types, log, ops, rc, env>>

(***************************************************************************)
(* Bounds of the model.                                                    *)
(***************************************************************************)
MaxRows == 2
MaxCols == 2
MaxSeed == 2

(* Default arguments of generate_random_dataframe. *)
DefaultRows == 5
DefaultCols == 5

(* The divisor of the population-in-millions derivation. *)
Thousand == 1000

(***************************************************************************)
(* Cells.  A number is the rational n/d in lowest terms.  p is the float   *)
(* precision class of a floating cell:                                     *)
(*   "f32"  a float64 value that float32 represents exactly                *)
(*   "near" a float64 value float32 represents only within the downcast    *)
(*          tolerance (the cast changes the value)                         *)
(*   "wide" a float64 value float32 does not represent within tolerance    *)
(*   "f32r" a value that has been rounded to float32                       *)
(* A text cell that spells an integer keeps that integer in n.             *)
(***************************************************************************)
IntCell(n) == [t |-> "int", n |-> n, d |-> 1, p |-> "", s |-> ""]
FloatCell(n, d, p) == [t |-> "float", n |-> n, d |-> d, p |-> p, s |-> ""]
NaN == [t |-> "nan", n |-> 0, d |-> 1, p |-> "", s |-> ""]
StrCell(s) == [t |-> "str", n |-> 0, d |-> 1, p |-> "", s |-> s]
NumStrCell(n) == [t |-> "str", n |-> n, d |-> 1, p |-> "", s |-> ToString(n)]
BoolCell(b) == [t |-> "bool", n |-> IF b THEN 1 ELSE 0, d |-> 1, p |-> "", s |-> ""]
TsCell(y) == [t |-> "ts", n |-> y, d |-> 1, p |-> "", s |-> ""]
NaT == [t |-> "nat", n |-> 0, d |-> 1, p |-> "", s |-> ""]

IsNull(c) == c.t \in {"nan", "nat"}

RECURSIVE Gcd(_, _)
Gcd(a, b) == IF b = 0 THEN a ELSE Gcd(b, a % b)

Abs(x) == IF x < 0 THEN -x ELSE x

RECURSIVE IsPow2(_)
IsPow2(d) == IF d = 1 THEN TRUE ELSE IF d % 2 # 0 THEN FALSE ELSE IsPow2(d \div 2)

(* The largest integer magnitude below which every integer is a float32. *)
Float32IntLimit == 2 ^ 24

(* The precision class of the float64 value n/d (in lowest terms). *)
PrecisionOf(n, d) ==
    IF IsPow2(d) /\ Abs(n) <= Float32IntLimit THEN "f32"
    ELSE IF d = 1 THEN "wide" ELSE "near"

(***************************************************************************)
(* Columns and datasets.  A dataset is absent (None) or a record of its    *)
(* row count and its columns.                                              *)
(***************************************************************************)
Column(name, dtype, vals) == [name |-> name, dtype |-> dtype, vals |-> vals, bad |-> FALSE]

None == [present |-> FALSE, nrows |-> 0, cols |-> <<>>]
DataFrame(nrows, cols) == [present |-> TRUE, nrows |-> nrows, cols |-> cols]

IntDtypes == {"int8", "int16", "int32", "int64"}
FloatDtypes == {"float32", "float64"}

Names(d) == [j \in 1..Len(d.cols) |-> d.cols[j].name]
HasColumn(d, name) == \E j \in 1..Len(d.cols) : d.cols[j].name = name
ColumnOf(d, name) == d.cols[CHOOSE j \in 1..Len(d.cols) : d.cols[j].name = name]

NonNull(col) == {i \in 1..Len(col.vals) : ~IsNull(col.vals[i])}
AllOf(col, kinds) == \A i \in NonNull(col) : col.vals[i].t \in kinds
SomeOf(col, kind) == \E i \in NonNull(col) : col.vals[i].t = kind

(***************************************************************************)
(* pandas.api.types.is_numeric_dtype / is_string_dtype as called by        *)
(* infer_data_types.  Integer, floating and boolean dtypes are numeric.    *)
(* An object column is a string column in pandas 1.x whatever it holds     *)
(* (legacy), and in pandas 2.x only when every element is a string (an     *)
(* empty object column counts); the source pins no version, so the build   *)
(* decides.                                                                *)
(***************************************************************************)
is_numeric_dtype(col) == col.dtype \in IntDtypes \cup FloatDtypes \cup {"bool"}

is_string_dtype(col, legacy) ==
    /\ col.dtype = "object"
    /\ \/ legacy
       \/ \A i \in 1..Len(col.vals) : col.vals[i].t = "str"

(***************************************************************************)
(* infer_data_types: one (Column, Inferred Type) row per column, in order. *)
(***************************************************************************)
(* InferredKind with the labels of the first two branches exchanged. *)
InferredKindSwapped(col, legacy) ==
    IF is_numeric_dtype(col) THEN "String"
    ELSE IF is_string_dtype(col, legacy) THEN "Numeric"
    ELSE "Object"

InferredKind(col, legacy) ==
    IF is_numeric_dtype(col) THEN "Numeric"
    ELSE IF is_string_dtype(col, legacy) THEN "String"
    ELSE "Object"

infer_data_types(d, legacy) ==
    [j \in 1..Len(d.cols) |->
        [Column |-> d.cols[j].name, InferredType |-> InferredKind(d.cols[j], legacy)]]

(***************************************************************************)
(* pandas.api.types.infer_dtype(series) with its default skipna=True: a    *)
(* typed column is named after its dtype; an object column after the       *)
(* non-null values it holds.                                               *)
(***************************************************************************)
infer_dtype(col) ==
    IF col.dtype \in IntDtypes THEN "integer"
    ELSE IF col.dtype \in FloatDtypes THEN "floating"
    ELSE IF col.dtype = "bool" THEN "boolean"
    ELSE IF col.dtype = "datetime64" THEN "datetime64"
    ELSE IF NonNull(col) = {} THEN "empty"
    ELSE IF AllOf(col, {"int"}) THEN "integer"
    ELSE IF AllOf(col, {"float"}) THEN "floating"
    ELSE IF AllOf(col, {"str"}) THEN "string"
    ELSE IF AllOf(col, {"bool"}) THEN "boolean"
    ELSE IF AllOf(col, {"int", "float"}) THEN "mixed-integer-float"
    ELSE IF SomeOf(col, "int") THEN "mixed-integer"
    ELSE "mixed"

(***************************************************************************)
(* pd.to_numeric(series, downcast=...).  Values first become int64 (all    *)
(* integers, no null) or float64; then the downcast picks the smallest     *)
(* dtype of the requested family, no wider than the current one, that      *)
(* holds the values.  A null blocks the integer downcast; a value float32  *)
(* does not represent within tolerance blocks the float downcast.          *)
(***************************************************************************)
FitsInt(dtype, n) ==
    CASE dtype = "int8" -> -(2 ^ 7) <= n /\ n < 2 ^ 7
      [] dtype = "int16" -> -(2 ^ 15) <= n /\ n < 2 ^ 15
      [] OTHER -> TRUE

IntOrder == <<"int8", "int16", "int32", "int64">>
IntRank(dtype) == CHOOSE k \in 1..Len(IntOrder) : IntOrder[k] = dtype

SmallestInt(vals, current) ==
    IntOrder[CHOOSE k \in 1..IntRank(current) :
        /\ \A i \in 1..Len(vals) : FitsInt(IntOrder[k], vals[i].n)
        /\ \A m \in 1..(k - 1) : \E i \in 1..Len(vals) : ~FitsInt(IntOrder[m], vals[i].n)]

ToFloat(c) ==
    IF c.t = "int" THEN FloatCell(c.n, 1, PrecisionOf(c.n, 1)) ELSE c

Round32(c) ==
    IF c.t = "float" /\ c.p = "near" THEN [c EXCEPT !.p = "f32r"] ELSE c

NumericValues(col) ==
    IF col.dtype \in IntDtypes \cup FloatDtypes THEN col
    ELSE IF \A i \in 1..Len(col.vals) : col.vals[i].t = "int"
         THEN [col EXCEPT !.dtype = "int64"]
    ELSE [col EXCEPT !.dtype = "float64",
                     !.vals = [i \in 1..Len(col.vals) |-> ToFloat(col.vals[i])]]

DowncastInteger(col) ==
    IF col.dtype \in IntDtypes
    THEN [col EXCEPT !.dtype = SmallestInt(col.vals, col.dtype)]
    ELSE col

DowncastFloat(col) ==
    IF /\ col.dtype = "float64"
       /\ \A i \in NonNull(col) : col.vals[i].p \in {"f32", "near"}
    THEN [col EXCEPT !.dtype = "float32",
                     !.vals = [i \in 1..Len(col.vals) |-> Round32(col.vals[i])]]
    ELSE col

to_numeric(col, downcast) ==
    IF downcast = "integer" THEN DowncastInteger(NumericValues(col))
    ELSE DowncastFloat(NumericValues(col))

(***************************************************************************)
(* series.astype(str): str() of every element, a null included.            *)
(***************************************************************************)
(* repr() where the source takes str(): a string gains quotes. *)
ReprOf(c) ==
    CASE c.t = "str" -> StrCell("'" \o c.s \o "'")
      [] c.t = "nan" -> StrCell("nan")
      [] c.t = "int" -> NumStrCell(c.n)
      [] c.t = "bool" -> StrCell(IF c.n = 1 THEN "True" ELSE "False")

StrOf(c) ==
    CASE c.t = "str" -> c
      [] c.t = "nan" -> StrCell("nan")
      [] c.t = "int" -> NumStrCell(c.n)
      [] c.t = "bool" -> StrCell(IF c.n = 1 THEN "True" ELSE "False")

astype_str(col) ==
    [col EXCEPT !.dtype = "object",
                !.vals = [i \in 1..Len(col.vals) |-> StrOf(col.vals[i])]]

(***************************************************************************)
(* Log records written through the module logger.                          *)
(***************************************************************************)
LogRecord(level, what, column) == [level |-> level, what |-> what, column |-> column]

(***************************************************************************)
(* apply_inferred_types: for each column in order, inside its own try,     *)
(* infer_dtype and then the conversion of that kind, assigned back into    *)
(* the dataset; an exception is logged and the loop goes on.  A column     *)
(* marked bad is one whose conversion call raises.                         *)
(***************************************************************************)
ConvertedKinds == {"integer", "floating", "string"}

ConversionRaises(col) == col.bad /\ infer_dtype(col) \in ConvertedKinds

CoerceColumn(col) ==
    CASE infer_dtype(col) = "integer" -> to_numeric(col, "integer")
      [] infer_dtype(col) = "floating" -> to_numeric(col, "float")
      [] infer_dtype(col) = "string" -> astype_str(col)
      [] OTHER -> col

(* The loop of apply_inferred_types with the try around the whole loop:    *)
(* the first exception is logged and ends the loop.                        *)
RECURSIVE ApplyLoopAbort(_, _, _)
ApplyLoopAbort(d, j, lg) ==
    IF j > Len(d.cols) THEN [df |-> d, log |-> lg]
    ELSE IF ConversionRaises(d.cols[j])
         THEN [df |-> d,
               log |-> Append(lg, LogRecord("ERROR", "Could not convert column", d.cols[j].name))]
         ELSE ApplyLoopAbort([d EXCEPT !.cols[j] = CoerceColumn(@)], j + 1, lg)

apply_abort(d) == ApplyLoopAbort(d, 1, <<>>)

RECURSIVE ApplyLoop(_, _, _)
ApplyLoop(d, j, lg) ==
    IF j > Len(d.cols) THEN [df |-> d, log |-> lg]
    ELSE IF ConversionRaises(d.cols[j])
         THEN ApplyLoop(d, j + 1,
                        Append(lg, LogRecord("ERROR", "Could not convert column", d.cols[j].name)))
         ELSE ApplyLoop([d EXCEPT !.cols[j] = CoerceColumn(@)], j + 1, lg)

apply_inferred_types(d) == ApplyLoop(d, 1, <<>>)

(***************************************************************************)
(* plot_world_population.  Line 115 replaces the Year column by            *)
(* to_datetime of its string form; line 116 derives the millions column;   *)
(* lines 117-125 render.  The dataset is changed in place, so what was     *)
(* assigned before an exception stays assigned.                            *)
(***************************************************************************)
YearName == "Year"
ThousandsName == "World Population (in thousands)"
MillionsName == "World Population (in millions)"

ParseYears == 1678..2261

SpellsYear(c) == c.n \in ParseYears /\ c.s = ToString(c.n)

CanParse(c) == c.t = "str" /\ (c.s = "nan" \/ SpellsYear(c))

to_datetime_cell(c) == IF c.s = "nan" THEN NaT ELSE TsCell(c.n)

to_datetime_raises(col) == \E i \in 1..Len(col.vals) : ~CanParse(col.vals[i])

to_datetime(col) ==
    [col EXCEPT !.dtype = "datetime64",
                !.vals = [i \in 1..Len(col.vals) |-> to_datetime_cell(col.vals[i])]]

Normal(n, d) == [n |-> n \div Gcd(Abs(n), d), d |-> d \div Gcd(Abs(n), d)]

(* DivCell dividing by a tenth of the divisor (a dropped zero). *)
DivCellDroppedZero(c, k) ==
    IF IsNull(c) THEN NaN
    ELSE LET q == Normal(c.n, c.d * (k \div 10))
         IN FloatCell(q.n, q.d, IF c.p = "f32r" THEN "f32r" ELSE PrecisionOf(q.n, q.d))

DivCell(c, k) ==
    IF IsNull(c) THEN NaN
    ELSE LET q == Normal(c.n, c.d * k)
         IN FloatCell(q.n, q.d, IF c.p = "f32r" THEN "f32r" ELSE PrecisionOf(q.n, q.d))

DivRaises(col) == \E i \in 1..Len(col.vals) : col.vals[i].t \in {"str", "ts", "nat"}

DivColumn(col, k, name) ==
    [name |-> name,
     dtype |-> IF col.dtype = "float32" THEN "float32" ELSE "float64",
     vals |-> [i \in 1..Len(col.vals) |-> DivCell(col.vals[i], k)],
     bad |-> FALSE]

(* df[name] = column: replaces the column of that name, or appends it. *)
SetColumn(d, col) ==
    IF HasColumn(d, col.name)
    THEN [d EXCEPT !.cols = [j \in 1..Len(d.cols) |->
                                IF d.cols[j].name = col.name THEN col ELSE d.cols[j]]]
    ELSE [d EXCEPT !.cols = Append(d.cols, col)]

YearConverted(d) == SetColumn(d, to_datetime(astype_str(ColumnOf(d, YearName))))

(* Derived writing the quotient over the source column. *)
DerivedInPlace(d) ==
    SetColumn(SetColumn(d, DivColumn(ColumnOf(d, ThousandsName), Thousand, ThousandsName)),
              DivColumn(ColumnOf(d, ThousandsName), Thousand, MillionsName))

Derived(d) == SetColumn(d, DivColumn(ColumnOf(d, ThousandsName), Thousand, MillionsName))

(* The dataset plot_world_population leaves, and whether it raised. *)
plot_world_population(d, renderOk) ==
    IF ~HasColumn(d, YearName) \/ to_datetime_raises(astype_str(ColumnOf(d, YearName)))
    THEN [df |-> d, raised |-> TRUE, derived |-> FALSE]
    ELSE IF ~HasColumn(d, ThousandsName) \/ DivRaises(ColumnOf(d, ThousandsName))
    THEN [df |-> YearConverted(d), raised |-> TRUE, derived |-> FALSE]
    ELSE [df |-> Derived(YearConverted(d)), raised |-> ~renderOk, derived |-> TRUE]

(***************************************************************************)
(* scrape_wikipedia_demographics: requests.get, BeautifulSoup, find the    *)
(* first table of class wikitable, pd.read_html of it; every Exception is  *)
(* caught and logged, and the function then returns None.                  *)
(***************************************************************************)
ScrapeError == LogRecord("ERROR", "An error occurred while scraping", "")

scrape_uncaught(e) ==
    IF ~e.fetchOk THEN [ret |-> None, raised |-> TRUE, log |-> <<>>]
    ELSE IF ~e.tableFound THEN [ret |-> None, raised |-> FALSE, log |-> <<>>]
    ELSE IF ~e.parseOk THEN [ret |-> None, raised |-> TRUE, log |-> <<>>]
    ELSE [ret |-> e.page, raised |-> FALSE, log |-> <<>>]

scrape_wikipedia_demographics(e) ==
    IF ~e.fetchOk THEN [ret |-> None, raised |-> FALSE, log |-> <<ScrapeError>>]
    ELSE IF ~e.tableFound THEN [ret |-> None, raised |-> FALSE, log |-> <<>>]
    ELSE IF ~e.parseOk THEN [ret |-> None, raised |-> FALSE, log |-> <<ScrapeError>>]
    ELSE [ret |-> e.page, raised |-> FALSE, log |-> <<>>]

(***************************************************************************)
(* generate_random_dataframe: np.random.rand(rows, cols) under column      *)
(* names Column1..Columncols.  The random source is a generator seeded by  *)
(* the environment; its k-th draw is a multiple of 1/RandScale in [0,1).   *)
(* A negative dimension makes np.random.rand raise.                        *)
(***************************************************************************)
RandScale == 2 ^ 3

Draw(seed, k) == ((2 * seed + 1) * (k + 3) + seed) % RandScale

RandCell(seed, k) ==
    LET q == Normal(Draw(seed, k), RandScale) IN FloatCell(q.n, q.d, PrecisionOf(q.n, q.d))

(* Column names numbered from 0. *)
ColumnNameFromZero(i) == "Column" \o ToString(i)

ColumnName(i) == "Column" \o ToString(i + 1)

generate_raises(rows, cols) == rows < 0 \/ cols < 0

generate_random_dataframe(rows, cols, seed) ==
    DataFrame(rows,
        [j \in 1..cols |->
            Column(ColumnName(j - 1), "float64",
                   [i \in 1..rows |-> RandCell(seed, (i - 1) * cols + (j - 1))])])

(***************************************************************************)
(* Inputs.  A column of r rows repeats a cell pattern; the patterns cover  *)
(* every kind infer_dtype tells apart and every outcome of the downcasts.  *)
(***************************************************************************)
Cycle(p, r) == [i \in 1..r |-> p[((i - 1) % Len(p)) + 1]]

Pattern(dtype, cells, bad) == [dtype |-> dtype, cells |-> cells, bad |-> bad]

MakeColumn(name, pat, r) ==
    [name |-> name, dtype |-> pat.dtype, vals |-> Cycle(pat.cells, r), bad |-> pat.bad]

F(n, d) == FloatCell(n, d, PrecisionOf(n, d))

(* Columns of any origin, for the functions called on their own. *)
Patterns ==
    { Pattern("int64", <<IntCell(1000), IntCell(2000)>>, FALSE),
      Pattern("int64", <<IntCell(100), IntCell(70000)>>, FALSE),
      Pattern("int64", <<IntCell(1000), IntCell(2000)>>, TRUE),
      Pattern("float64", <<F(3, 2), NaN>>, FALSE),
      Pattern("float64", <<F(1, 10), F(3, 2)>>, FALSE),
      Pattern("float64", <<F(2 ^ 24 + 1, 1), F(3, 2)>>, FALSE),
      Pattern("bool", <<BoolCell(TRUE), BoolCell(FALSE)>>, FALSE),
      Pattern("object", <<StrCell("a"), StrCell("b")>>, FALSE),
      Pattern("object", <<StrCell("a"), StrCell("b")>>, TRUE),
      Pattern("object", <<StrCell("a"), NaN>>, FALSE),
      Pattern("object", <<IntCell(1), IntCell(2)>>, FALSE),
      Pattern("object", <<IntCell(1), NaN>>, FALSE),
      Pattern("object", <<IntCell(1), StrCell("a")>>, FALSE) }

TablesOf(r, c) ==
    { DataFrame(r, [j \in 1..c |-> MakeColumn(ColumnName(j - 1), f[j], r)]) :
        f \in [1..c -> Patterns] }

Tables == UNION { TablesOf(r, c) : r \in 0..MaxRows, c \in 0..MaxCols }

(* Columns pd.read_html produces (int64, float64, or object holding text   *)
(* and nulls), by the column name the page gives them.                     *)
PagePatterns(name) ==
    CASE name = YearName ->
            { Pattern("int64", <<IntCell(1950), IntCell(1951)>>, FALSE),
              Pattern("object", <<NumStrCell(1950), NaN>>, FALSE),
              Pattern("object", <<NumStrCell(1950), StrCell("n/a")>>, FALSE) }
      [] name = ThousandsName ->
            { Pattern("int64", <<IntCell(1000), IntCell(2000)>>, FALSE),
              Pattern("int64", <<IntCell(2500000), IntCell(70000)>>, TRUE),
              Pattern("float64", <<F(25001, 10), NaN>>, FALSE),
              Pattern("object", <<StrCell("2,5"), StrCell("n/a")>>, FALSE) }
      [] OTHER ->
            { Pattern("object", <<StrCell("a"), NaN>>, FALSE),
              Pattern("object", <<StrCell("a"), StrCell("b")>>, TRUE),
              Pattern("float64", <<F(1, 10), F(3, 2)>>, FALSE) }

PageNames == {YearName, ThousandsName, "Notes"}

NameSeqs(c) == { f \in [1..c -> PageNames] : \A i, j \in 1..c : f[i] = f[j] => i = j }

PagesOf(r, c) ==
    UNION { { DataFrame(r, [j \in 1..c |-> MakeColumn(names[j], f[j], r)]) :
                f \in { g \in [1..c -> UNION { PagePatterns(n) : n \in PageNames }] :
                          \A j \in 1..c : g[j] \in PagePatterns(names[j]) } } :
            names \in NameSeqs(c) }

Pages == UNION { PagesOf(r, c) : r \in 0..MaxRows, c \in 0..MaxCols }

(***************************************************************************)
(* The environment of a run: what the network, the page, the renderer and  *)
(* the random source do.                                                   *)
(***************************************************************************)
Env(fetchOk, tableFound, parseOk, page, renderOk, generateOk, seed) ==
    [fetchOk |-> fetchOk, tableFound |-> tableFound, parseOk |-> parseOk, page |-> page,
     renderOk |-> renderOk, generateOk |-> generateOk, seed |-> seed,
     rows |-> DefaultRows, cols |-> DefaultCols, legacy |-> FALSE]

WikiEnvs ==
    { Env(FALSE, FALSE, FALSE, None, TRUE, TRUE, 0),
      Env(TRUE, FALSE, FALSE, None, TRUE, TRUE, 0),
      Env(TRUE, TRUE, FALSE, None, TRUE, TRUE, 0) }
    \cup { Env(TRUE, TRUE, TRUE, page, renderOk, TRUE, 0) :
             page \in Pages, renderOk \in BOOLEAN }

TemplateEnvs ==
    { Env(TRUE, TRUE, TRUE, None, TRUE, generateOk, seed) :
        generateOk \in BOOLEAN, seed \in 0..MaxSeed }

NotReturned == -1
ExitSuccess == 0
ExitFailure == 1

(***************************************************************************)
(* The two entry points.                                                   *)
(***************************************************************************)
Init ==
    /\ prog \in {"wiki", "template"}
    /\ env \in IF prog = "wiki" THEN WikiEnvs ELSE TemplateEnvs
    /\ pc = "start"
    /\ df = None
    /\ orig = None
    /\ prev = None
    /\ ret = None
    /\ types = <<>>
    /\ log = <<>>
    /\ ops = <<>>
    /\ rc = NotReturned

(* example_wiki_scraper.main, lines 160-162. *)
Scrape ==
    /\ prog = "wiki"
    /\ pc = "start"
    /\ \E r \in {scrape_wikipedia_demographics(env)} :
          /\ df' = r.ret
          /\ orig' = r.ret
          /\ ret' = r.ret
          /\ log' = <<LogRecord("INFO", "Starting script.", "")>> \o r.log
          /\ ops' = IF r.raised THEN ops ELSE Append(ops, "scrape")
          /\ pc' = IF r.raised THEN "raised" ELSE "scraped"
          /\ rc' = IF r.raised THEN ExitFailure ELSE rc
    /\ prev' = df
    /\ UNCHANGED <<prog, types, env>>

(* example_wiki_scraper.main, lines 163-164. *)
Coerce ==
    /\ prog = "wiki"
    /\ pc = "scraped"
    /\ df.present
    /\ \E r \in {apply_inferred_types(df)} :
          /\ df' = r.df
          /\ ret' = r.df
          /\ log' = log \o r.log
    /\ prev' = df
    /\ ops' = Append(ops, "coerce")
    /\ pc' = "coerced"
    /\ UNCHANGED <<prog, orig, types, rc, env>>

(* Plot with the exception of plot_world_population caught in main. *)
PlotCaught ==
    /\ prog = "wiki"
    /\ pc = "coerced"
    /\ \E r \in {plot_world_population(df, env.renderOk)} :
          /\ df' = r.df
          /\ ops' = ops \o (IF r.derived THEN <<"derive">> ELSE <<>>)
                        \o (IF r.raised THEN <<>> ELSE <<"plot">>)
    /\ pc' = "plotted"
    /\ prev' = df
    /\ UNCHANGED <<prog, orig, ret, types, log, rc, env>>

(* example_wiki_scraper.main, line 165: an exception leaves main. *)
Plot ==
    /\ prog = "wiki"
    /\ pc = "coerced"
    /\ \E r \in {plot_world_population(df, env.renderOk)} :
          /\ df' = r.df
          /\ ops' = ops \o (IF r.derived THEN <<"derive">> ELSE <<>>)
                        \o (IF r.raised THEN <<>> ELSE <<"plot">>)
          /\ pc' = IF r.raised THEN "raised" ELSE "plotted"
          /\ rc' = IF r.raised THEN ExitFailure ELSE rc
    /\ prev' = df
    /\ UNCHANGED <<prog, orig, ret, types, log, env>>

(* example_wiki_scraper.main, line 166. *)
LogDemographics ==
    /\ prog = "wiki"
    /\ pc = "plotted"
    /\ log' = Append(log, LogRecord("INFO", "Demographics DataFrame", ""))
    /\ ops' = Append(ops, "log")
    /\ prev' = df
    /\ pc' = "logged"
    /\ UNCHANGED <<prog, df, orig, ret, types, rc, env>>

(* WikiReturn with the return inside the if, ahead of the table logging. *)
WikiReturnEarly ==
    /\ prog = "wiki"
    /\ pc = IF df.present THEN "plotted" ELSE "scraped"
    /\ rc' = ExitSuccess
    /\ pc' = "done"
    /\ UNCHANGED <<prog, df, orig, prev, ret, types, log, ops, env>>

(* example_wiki_scraper.main, line 167. *)
WikiReturn ==
    /\ prog = "wiki"
    /\ pc = IF df.present THEN "logged" ELSE "scraped"
    /\ rc' = ExitSuccess
    /\ pc' = "done"
    /\ UNCHANGED <<prog, df, orig, prev, ret, types, log, ops, env>>

(* script_template.main, lines 93-98. *)
Generate ==
    /\ prog = "template"
    /\ pc = "start"
    /\ log' = Append(log, LogRecord("INFO", "Hello world.", ""))
    /\ IF env.generateOk
       THEN /\ df' = generate_random_dataframe(DefaultRows, DefaultCols, env.seed)
            /\ orig' = df'
            /\ ret' = df'
            /\ ops' = Append(ops, "generate")
            /\ pc' = "generated"
            /\ rc' = rc
       ELSE /\ pc' = "raised"
            /\ rc' = ExitFailure
            /\ UNCHANGED <<df, orig, ret, ops>>
    /\ prev' = df
    /\ UNCHANGED <<prog, types, env>>

(* script_template.log_dataframe, called at line 101 of main. *)
LogDataframe ==
    /\ prog \in {"template", "lib"}
    /\ pc = "generated"
    /\ log' = Append(log, LogRecord("INFO", "DataFrame contents", ""))
    /\ ops' = Append(ops, "log")
    /\ prev' = df
    /\ pc' = "logged"
    /\ UNCHANGED <<prog, df, orig, ret, types, rc, env>>

(* script_template.main, line 103. *)
TemplateReturn ==
    /\ prog = "template"
    /\ pc = "logged"
    /\ rc' = ExitSuccess
    /\ pc' = "done"
    /\ UNCHANGED <<prog, df, orig, prev, ret, types, log, ops, env>>

Next ==
    \/ Scrape
    \/ Coerce
    \/ Plot
    \/ LogDemographics
    \/ WikiReturn
    \/ Generate
    \/ LogDataframe
    \/ TemplateReturn

Spec == Init /\ [][Next]_vars

(***************************************************************************)
(* The functions called on their own, on any dataset.                      *)
(***************************************************************************)
InitLib ==
    /\ prog = "lib"
    /\ env = Env(TRUE, TRUE, TRUE, None, TRUE, TRUE, 0)
    /\ pc = "idle"
    /\ df \in Tables \cup {None}
    /\ orig = df
    /\ prev = df
    /\ ret = None
    /\ types = <<>>
    /\ log = <<>>
    /\ ops = <<>>
    /\ rc = NotReturned

(* infer_data_types(df), under either pandas generation. *)
CallInferDataTypes ==
    /\ prog = "lib"
    /\ pc = "idle"
    /\ df.present
    /\ \E legacy \in BOOLEAN :
          /\ env' = [env EXCEPT !.legacy = legacy]
          /\ types' = infer_data_types(df, legacy)
    /\ prev' = df
    /\ ops' = Append(ops, "infer")
    /\ pc' = "inferred"
    /\ UNCHANGED <<prog, df, orig, ret, log, rc>>

(* apply_inferred_types(df): changes df in place and returns it. *)
CallApply ==
    /\ prog = "lib"
    /\ pc \in {"idle", "inferred"}
    /\ df.present
    /\ \E r \in {apply_inferred_types(df)} :
          /\ df' = r.df
          /\ ret' = r.df
          /\ log' = log \o r.log
    /\ prev' = df
    /\ ops' = Append(ops, "coerce")
    /\ pc' = "applied"
    /\ UNCHANGED <<prog, orig, types, rc, env>>

(* apply_inferred_types on what apply_inferred_types returned. *)
CallApplyAgain ==
    /\ prog = "lib"
    /\ pc = "applied"
    /\ \E r \in {apply_inferred_types(ret)} :
          /\ df' = r.df
          /\ ret' = r.df
          /\ log' = log \o r.log
    /\ prev' = df
    /\ ops' = Append(ops, "coerce")
    /\ pc' = "applied2"
    /\ UNCHANGED <<prog, orig, types, rc, env>>

(* generate_random_dataframe(rows, cols), or with its defaults. *)
CallGenerate ==
    /\ prog = "lib"
    /\ pc = "idle"
    /\ ~df.present
    /\ \E rows \in (-1..MaxRows) \cup {DefaultRows}, seed \in 0..MaxSeed :
       \E cols \in IF rows = DefaultRows THEN {DefaultCols} ELSE -1..MaxCols :
          /\ env' = [env EXCEPT !.rows = rows, !.cols = cols, !.seed = seed]
          /\ IF generate_raises(rows, cols)
             THEN /\ pc' = "raised"
                  /\ UNCHANGED <<df, orig, ret, ops>>
             ELSE /\ df' = generate_random_dataframe(rows, cols, seed)
                  /\ orig' = df'
                  /\ ret' = df'
                  /\ ops' = Append(ops, "generate")
                  /\ pc' = "generated"
    /\ prev' = df
    /\ UNCHANGED <<prog, types, log, rc>>

NextLib ==
    \/ CallInferDataTypes
    \/ CallApply
    \/ CallApplyAgain
    \/ CallGenerate
    \/ LogDataframe

SpecLib == InitLib /\ [][NextLib]_vars

(***************************************************************************)
(* Properties.                                                             *)
(***************************************************************************)
Count(seq, x) == Cardinality({i \in 1..Len(seq) : seq[i] = x})

Errors(lg) == {i \in 1..Len(lg) : lg[i].level = "ERROR"}

(* C1: scrape_wikipedia_demographics never raises to main: whatever the    *)
(* fetch, the search for the wikitable and the parse do, the call returns, *)
(* and it returns a dataset (the parsed table) exactly when the fetch      *)
(* succeeded, the table was found and the parse succeeded; otherwise None. *)
C1_ScrapeNeverRaises ==
    (prog = "wiki" /\ pc # "start") =>
        /\ Len(ops) >= 1 /\ ops[1] = "scrape"
        /\ pc = "scraped" => rc = NotReturned
        /\ orig.present <=> (env.fetchOk /\ env.tableFound /\ env.parseOk)
        /\ orig.present => orig = env.page

C1_Witness ==
    /\ prog = "wiki" /\ pc = "scraped"
    /\ env.fetchOk /\ env.tableFound /\ ~env.parseOk
    /\ ~df.present /\ rc = NotReturned

(* C3: a run of either main that ends without an uncaught exception       *)
(* returns 0 and every run that has not raised can go on to its return;    *)
(* the Demographics Reporter with an absent scrape result does no          *)
(* coercion, plotting or table logging, and with a present one does        *)
(* coercion, plotting (with its derivation) and table logging once each,   *)
(* in that order.                                                          *)
C3_ExitCodeAndOrder ==
    /\ rc = ExitSuccess <=> pc = "done"
    /\ pc \notin {"done", "raised"} => ENABLED Next
    /\ (pc = "done" /\ prog = "wiki" /\ ~orig.present) => ops = <<"scrape">>
    /\ (pc = "done" /\ prog = "wiki" /\ orig.present) =>
            ops = <<"scrape", "coerce", "derive", "plot", "log">>
    /\ (pc = "done" /\ prog = "template") => ops = <<"generate", "log">>

C3_Witness ==
    /\ prog = "wiki" /\ pc = "done" /\ rc = ExitSuccess
    /\ orig.present /\ Count(ops, "log") = 1

(* C9: an exception of plot_world_population (no Year column, no           *)
(* population-in-thousands column, a failed rendering) leaves main: main   *)
(* does not return 0, nothing runs after it and the table is never logged; *)
(* the same for an exception of generate_random_dataframe in the Random    *)
(* Table Logger.                                                           *)
PlotMustRaise ==
    /\ prog = "wiki" /\ orig.present
    /\ \/ ~HasColumn(orig, YearName)
       \/ ~HasColumn(orig, ThousandsName)
       \/ ~env.renderOk

C9_ErrorsPropagate ==
    /\ pc = "raised" =>
          /\ rc = ExitFailure
          /\ Count(ops, "log") = 0 /\ Count(ops, "plot") = 0
          /\ ~ENABLED Next
    /\ PlotMustRaise => (pc \notin {"plotted", "logged", "done"} /\ rc # ExitSuccess)
    /\ (prog = "template" /\ ~env.generateOk) =>
          (pc \in {"start", "raised"} /\ rc # ExitSuccess)

C9_Witness ==
    /\ prog = "wiki" /\ pc = "raised" /\ rc = ExitFailure
    /\ HasColumn(df, YearName) /\ ~HasColumn(df, ThousandsName)
    /\ ColumnOf(df, YearName).dtype = "datetime64"

(* C5: whenever the dataset of a Demographics Reporter run has the         *)
(* population-in-millions column, that column is, row by row, the          *)
(* population-in-thousands column divided by 1000 (a null stays a null),   *)
(* and the derivation has run at most once.                                *)
IsThousandth(m, t) ==
    IF IsNull(t) THEN IsNull(m)
    ELSE m.t = "float" /\ m.n * Thousand * t.d = t.n * m.d

SameShape(a, b) == a.present /\ b.present /\ a.nrows = b.nrows /\ Names(a) = Names(b)

AddsMillions(a, b) ==
    /\ b.present /\ b.nrows = a.nrows
    /\ Len(b.cols) = Len(a.cols) + 1
    /\ b.cols[Len(b.cols)].name = MillionsName
    /\ \A j \in 1..Len(a.cols) : b.cols[j] = a.cols[j]

C7_OnlyCoercionAndDerivedColumn ==
    [][df.present =>
          \/ df' = df
          \/ pc' = "coerced" /\ SameShape(df, df')
          \/ pc = "coerced" /\ AddsMillions(df, df')]_vars

(* C7 amended: plot_world_population also replaces the Year column by its  *)
(* datetime conversion; every other column it was given is unchanged, the  *)
(* derived column is the only one added, and logging the table changes     *)
(* nothing.                                                                *)
PlotChange(a, b) ==
    /\ b.present /\ b.nrows = a.nrows
    /\ Len(b.cols) \in {Len(a.cols), Len(a.cols) + 1}
    /\ Len(b.cols) = Len(a.cols) + 1 => b.cols[Len(b.cols)].name = MillionsName
    /\ \A j \in 1..Len(a.cols) :
          \/ b.cols[j] = a.cols[j]
          \/ /\ a.cols[j].name = YearName /\ b.cols[j].name = YearName
             /\ b.cols[j].dtype = "datetime64"

C7_CoercionYearAndDerivedColumn ==
    [][/\ df.present =>
             \/ df' = df
             \/ pc' = "coerced" /\ SameShape(df, df')
             \/ pc = "coerced" /\ PlotChange(df, df')
       /\ pc' = "logged" => df' = df]_vars

C7_Witness ==
    /\ prog = "wiki" /\ pc = "plotted"
    /\ ColumnOf(prev, YearName).dtype \in IntDtypes
    /\ ColumnOf(df, YearName).dtype = "datetime64"
    /\ HasColumn(df, MillionsName) /\ ~HasColumn(prev, MillionsName)
    /\ ColumnOf(df, ThousandsName) = ColumnOf(prev, ThousandsName)

(* C2: apply_inferred_types returns the dataset without raising whatever   *)
(* columns fail to convert; a failing column keeps exactly its values, an  *)
(* error naming it is logged, and every other column, before or after a    *)
(* failing one, is coerced: integers to the narrowest integer dtype that   *)
(* holds them, floats to float32 unless a value does not fit, text to      *)
(* strings; columns of any other kind are left as they are.                *)
SameNumber(a, b) ==
    IF IsNull(a) \/ IsNull(b) THEN IsNull(a) /\ IsNull(b)
    ELSE a.t \in {"int", "float"} /\ b.t \in {"int", "float"} /\ a.n * b.d = b.n * a.d

Narrowest(col) ==
    /\ col.dtype \in IntDtypes
    /\ \A i \in 1..Len(col.vals) : col.vals[i].t = "int" /\ FitsInt(col.dtype, col.vals[i].n)
    /\ \A k \in 1..(IntRank(col.dtype) - 1) :
          \E i \in 1..Len(col.vals) : ~FitsInt(IntOrder[k], col.vals[i].n)

IsCoerced(before, after) ==
    /\ after.name = before.name
    /\ Len(after.vals) = Len(before.vals)
    /\ CASE infer_dtype(before) = "integer" ->
               /\ \A i \in 1..Len(before.vals) : SameNumber(before.vals[i], after.vals[i])
               /\ IF \E i \in 1..Len(before.vals) : IsNull(before.vals[i])
                  THEN after.dtype = "float64"
                  ELSE Narrowest(after)
         [] infer_dtype(before) = "floating" ->
               /\ \A i \in 1..Len(before.vals) : SameNumber(before.vals[i], after.vals[i])
               /\ after.dtype = "float32" <=>
                     \/ before.dtype = "float32"
                     \/ \A i \in NonNull(before) : before.vals[i].p # "wide"
               /\ after.dtype \in FloatDtypes
         [] infer_dtype(before) = "string" ->
               /\ after.dtype = "object"
               /\ \A i \in 1..Len(before.vals) :
                     after.vals[i] = IF IsNull(before.vals[i]) THEN StrCell("nan")
                                     ELSE before.vals[i]
         [] OTHER -> after = before

Failing(d) == {j \in 1..Len(d.cols) : d.cols[j].bad /\ infer_dtype(d.cols[j]) \in ConvertedKinds}

C2_FailuresIsolated ==
    (prog = "lib" /\ pc = "applied") =>
        /\ ret = df /\ rc = NotReturned
        /\ SameShape(prev, df)
        /\ \A j \in Failing(prev) :
              /\ df.cols[j] = prev.cols[j]
              /\ \E i \in Errors(log) : log[i].column = prev.cols[j].name
        /\ Cardinality(Errors(log)) = Cardinality(Failing(prev))
        /\ \A j \in (1..Len(prev.cols)) \ Failing(prev) : IsCoerced(prev.cols[j], df.cols[j])

C2_Witness ==
    /\ prog = "lib" /\ pc = "applied" /\ Len(prev.cols) = 2
    /\ Failing(prev) = {1}
    /\ df.cols[1] = prev.cols[1]
    /\ df.cols[2] # prev.cols[2]
    /\ Cardinality(Errors(log)) = 1

(* C6: coercion is idempotent: a second apply_inferred_types leaves every  *)
(* column with the values and the kind the first one gave it, whether the  *)
(* first one changed the column's representation or failed on it.          *)
C6_CoercionIdempotent ==
    (prog = "lib" /\ pc = "applied2") =>
        /\ SameShape(prev, df)
        /\ \A j \in 1..Len(df.cols) :
              /\ df.cols[j].vals = prev.cols[j].vals
              /\ infer_dtype(df.cols[j]) = infer_dtype(prev.cols[j])
        /\ \A j \in Failing(orig) : df.cols[j] = orig.cols[j]

C6_Witness ==
    /\ prog = "lib" /\ pc = "applied2" /\ Len(df.cols) = 2
    /\ Failing(orig) = {1}
    /\ prev.cols[2].vals # orig.cols[2].vals
    /\ df.cols[2].vals = prev.cols[2].vals

(* C4: for rows, cols >= 0 generate_random_dataframe returns rows rows and *)
(* cols columns named Column1..Columncols in that order, every value in    *)
(* [0,1); with the default arguments the table is 5 by 5.                  *)
C4_GeneratedShape ==
    (prog = "lib" /\ pc \in {"generated", "logged"}) =>
        /\ env.rows >= 0 /\ env.cols >= 0
        /\ df.present /\ df.nrows = env.rows /\ Len(df.cols) = env.cols
        /\ \A j \in 1..Len(df.cols) :
              /\ df.cols[j].name = "Column" \o ToString(j)
              /\ Len(df.cols[j].vals) = env.rows
              /\ \A i \in 1..env.rows :
                    LET c == df.cols[j].vals[i]
                    IN c.t = "float" /\ 0 <= c.n /\ c.n < c.d
        /\ \A j, k \in 1..Len(df.cols) : df.cols[j].name = df.cols[k].name => j = k

C4_Witness ==
    /\ prog = "lib" /\ pc = "generated"
    /\ env.rows = DefaultRows /\ env.cols = DefaultCols
    /\ df.nrows = 5 /\ Len(df.cols) = 5
    /\ df.cols[5].name = "Column5"
    /\ \E i, j \in 1..5 : df.cols[j].vals[i] # df.cols[1].vals[1]

(* C8: infer_data_types gives one entry per column, in column order, each  *)
(* Numeric, String or Object: Numeric exactly for the numeric columns,     *)
(* String only for object columns and for every all-text column, Object    *)
(* for the rest; an all-integer column is Numeric; the dataset is not      *)
(* changed.                                                                *)
AllText(col) ==
    col.dtype = "object" /\ \A i \in 1..Len(col.vals) : col.vals[i].t = "str"

IsNumericColumn(col) == col.dtype \in IntDtypes \cup FloatDtypes \cup {"bool"}

C8_InferenceTotal ==
    (prog = "lib" /\ pc = "inferred") =>
        /\ df = prev /\ df = orig
        /\ Len(types) = Len(df.cols)
        /\ \A j \in 1..Len(types) :
              /\ types[j].Column = df.cols[j].name
              /\ types[j].InferredType \in {"Numeric", "String", "Object"}
              /\ types[j].InferredType = "Numeric" <=> IsNumericColumn(df.cols[j])
              /\ df.cols[j].dtype \in IntDtypes => types[j].InferredType = "Numeric"
              /\ AllText(df.cols[j]) => types[j].InferredType = "String"
              /\ types[j].InferredType = "String" => df.cols[j].dtype = "object"

C8_Witness ==
    /\ prog = "lib" /\ pc = "inferred" /\ Len(types) = 2 /\ df.nrows = 2
    /\ df.cols[1].dtype = "int64" /\ types[1].InferredType = "Numeric"
    /\ AllText(df.cols[2]) /\ types[2].InferredType = "String"

(* C10: the coercion of a column is the one its inferred kind names: a     *)
(* column infer_data_types calls Numeric is numerically narrowed, one it   *)
(* calls String is forced to strings, one it calls Object is left as it    *)
(* is, so the two passes never disagree.                                   *)
CoercionKind(col) ==
    CASE infer_dtype(col) \in {"integer", "floating"} -> "Numeric"
      [] infer_dtype(col) = "string" -> "String"
      [] OTHER -> "Object"

C10_PassesAgree ==
    (prog = "lib" /\ pc = "inferred") =>
        \A j \in 1..Len(types) : types[j].InferredType = CoercionKind(df.cols[j])

====
